---- MODULE Spec2Model ----
(***************************************************************************)
(* Model of fetch_litecore_base.py: the variant expansion, the filename,   *)
(* the OS/ABI split, the download path, and the download / dry-run of one  *)
(* variant against a filesystem and a build server.                        *)
(*                                                                         *)
(* A Python str is modelled as the sequence of its characters, so that     *)
(* split, startswith, index, find, replace and endswith are computed on    *)
(* the characters as Python computes them.                                 *)
(***************************************************************************)
EXTENDS Integers, Sequences, FiniteSets, TLC

VARIABLES
    has_platform,   \* the module global has_platform
    hook,           \* the function bound to the global subdirectory_for_variant
    pc,             \* where the caller is
    args,           \* the arguments the caller passes to every call of a run
    dirs,           \* the directories that exist
    files,          \* the files that exist
    call,           \* the call made last: its arguments, what it did, its result
    todo,           \* the variants the run has not attempted yet
    failed_count,   \* the caller's running tally of failures
    attempted,      \* history: each variant attempted, the server's answer, the result
    placed,         \* history: the files successful downloads of the run placed
    imported        \* history: how the import of the platform extension ended

vars == <<has_platform, hook, pc, args, dirs, files, call, todo, failed_count,
          attempted, placed, imported>>

(***************************************************************************)
(* String literals of the source, as character sequences.                  *)
(***************************************************************************)
s_android == <<"a", "n", "d", "r", "o", "i", "d">>
s_android_x86_64 == <<"a", "n", "d", "r", "o", "i", "d", "-", "x", "8", "6", "_", "6", "4">>
s_android_x86 == <<"a", "n", "d", "r", "o", "i", "d", "-", "x", "8", "6">>
s_android_armeabi_v7a == <<"a", "n", "d", "r", "o", "i", "d", "-", "a", "r", "m", "e", "a", "b", "i", "-", "v", "7", "a">>
s_android_arm64_v8a == <<"a", "n", "d", "r", "o", "i", "d", "-", "a", "r", "m", "6", "4", "-", "v", "8", "a">>
s_centos6 == <<"c", "e", "n", "t", "o", "s", "6">>
s_dotnet == <<"d", "o", "t", "n", "e", "t">>
s_java == <<"j", "a", "v", "a">>
s_linux == <<"l", "i", "n", "u", "x">>
s_macos == <<"m", "a", "c", "o", "s">>
s_macosx == <<"m", "a", "c", "o", "s", "x">>
s_ios == <<"i", "o", "s">>
s_ios_net == <<"i", "o", "s", "/", "n", "e", "t">>
s_windows == <<"w", "i", "n", "d", "o", "w", "s">>
s_windows_arm64 == <<"w", "i", "n", "d", "o", "w", "s", "-", "a", "r", "m", "6", "4">>
s_windows_win64 == <<"w", "i", "n", "d", "o", "w", "s", "-", "w", "i", "n", "6", "4">>
s_x86_64 == <<"x", "8", "6", "_", "6", "4">>
s_win64 == <<"w", "i", "n", "6", "4">>
s_tar_gz == <<"t", "a", "r", ".", "g", "z">>
s_zip == <<"z", "i", "p">>
s_debug_suffix == <<"-", "d", "e", "b", "u", "g">>
s_EE == <<"E", "E">>
s_enterprise == <<"e", "n", "t", "e", "r", "p", "r", "i", "s", "e">>
s_community == <<"c", "o", "m", "m", "u", "n", "i", "t", "y">>
s_prefix == <<"c", "o", "u", "c", "h", "b", "a", "s", "e", "-", "l", "i", "t", "e", "-", "c", "o", "r", "e", "-">>
s_dash == <<"-">>
s_dot == <<".">>
s_slash == <<"/">>

(***************************************************************************)
(* Bounds of the model.                                                    *)
(***************************************************************************)
MaxTokens == 2      \* longest list handed to calculate_variants
MaxBuildLen == 6    \* longest build string
MaxTokLen == 4      \* longest generated variant token
MaxRun == 2         \* most variants in one run

(***************************************************************************)
(* Results: a returned value, or the exception a call raised.              *)
(***************************************************************************)
Ok(v) == [ok |-> TRUE, val |-> v, exc |-> "none"]
Raise(e) == [ok |-> FALSE, val |-> <<>>, exc |-> e]

None == [given |-> FALSE, s |-> <<>>]
Some(s) == [given |-> TRUE, s |-> s]

(***************************************************************************)
(* Python str methods, on character sequences.                             *)
(***************************************************************************)
startswith(s, p) == Len(s) >= Len(p) /\ SubSeq(s, 1, Len(p)) = p

endswith(s, p) == Len(s) >= Len(p) /\ SubSeq(s, Len(s) - Len(p) + 1, Len(s)) = p

\* str.find: the lowest 0-based index where sub occurs, or -1
find(s, sub) ==
    LET hits == {i \in 0..(Len(s) - Len(sub)) : SubSeq(s, i + 1, i + Len(sub)) = sub}
    IN IF hits = {} THEN -1 ELSE CHOOSE i \in hits : \A j \in hits : i <= j

\* str.split(sep): the segments between the occurrences of sep, empty ones kept
RECURSIVE split(_, _)
split(s, sep) ==
    LET i == find(s, sep)
    IN IF i = -1 THEN <<s>>
       ELSE <<SubSeq(s, 1, i)>> \o split(SubSeq(s, i + Len(sep) + 1, Len(s)), sep)

\* str.replace(old, new): every occurrence, left to right
RECURSIVE replace(_, _, _)
replace(s, old, new) ==
    LET i == find(s, old)
    IN IF i = -1 THEN s
       ELSE SubSeq(s, 1, i) \o new \o replace(SubSeq(s, i + Len(old) + 1, Len(s)), old, new)

(***************************************************************************)
(* The recognized platform identifiers.                                    *)
(***************************************************************************)
VALID_PLATFORMS ==
    {s_android, s_android_x86_64, s_android_x86, s_android_armeabi_v7a,
     s_android_arm64_v8a, s_centos6, s_dotnet, s_java, s_linux, s_macos, s_macosx,
     s_ios, s_ios_net, s_windows, s_windows_arm64, s_windows_win64}

(***************************************************************************)
(* calculate_variants                                                      *)
(***************************************************************************)
\* a slip in one branch: java's macosx written as macos
expansion_java_macos(v) ==
    IF v = s_dotnet THEN
        {s_linux, s_android_x86_64, s_android_x86, s_android_armeabi_v7a,
         s_android_arm64_v8a, s_macosx, s_ios_net, s_windows_win64, s_windows_arm64}
    ELSE IF v = s_android THEN
        {s_android_x86_64, s_android_x86, s_android_armeabi_v7a, s_android_arm64_v8a}
    ELSE IF v = s_java THEN {s_linux, s_macos, s_windows_win64}
    ELSE IF v = s_windows THEN {s_windows_win64, s_windows_arm64}
    ELSE IF v = s_macos THEN {s_macosx}
    ELSE {v}

\* a branch that unions the token itself in, beside its expansion
expansion_keeps_token(v) ==
    IF v = s_dotnet THEN
        {s_linux, s_android_x86_64, s_android_x86, s_android_armeabi_v7a,
         s_android_arm64_v8a, s_macosx, s_ios_net, s_windows_win64, s_windows_arm64}
    ELSE IF v = s_android THEN
        {s_android_x86_64, s_android_x86, s_android_armeabi_v7a, s_android_arm64_v8a}
    ELSE IF v = s_java THEN {s_linux, s_macosx, s_windows_win64}
    ELSE IF v = s_windows THEN {v, s_windows_win64, s_windows_arm64}
    ELSE IF v = s_macos THEN {s_macosx}
    ELSE {v}

\* the if/elif chain of the loop body: what one token adds to final_variants
expansion(v) ==
    IF v = s_dotnet THEN
        {s_linux, s_android_x86_64, s_android_x86, s_android_armeabi_v7a,
         s_android_arm64_v8a, s_macosx, s_ios_net, s_windows_win64, s_windows_arm64}
    ELSE IF v = s_android THEN
        {s_android_x86_64, s_android_x86, s_android_armeabi_v7a, s_android_arm64_v8a}
    ELSE IF v = s_java THEN {s_linux, s_macosx, s_windows_win64}
    ELSE IF v = s_windows THEN {s_windows_win64, s_windows_arm64}
    ELSE IF v = s_macos THEN {s_macosx}
    ELSE {v}

\* the loop: final_variants from the tokens original[i..], in order
RECURSIVE calculate_variants_from(_, _, _)
calculate_variants_from(original, i, final_variants) ==
    IF i > Len(original) THEN final_variants
    ELSE calculate_variants_from(original, i + 1, final_variants \cup expansion(original[i]))

calculate_variants(original) == calculate_variants_from(original, 1, {})

\* an iteration order of a set (Python iterates a set in some order)
RECURSIVE iteration_order(_)
iteration_order(S) ==
    IF S = {} THEN <<>>
    ELSE LET x == CHOOSE y \in S : TRUE IN <<x>> \o iteration_order(S \ {x})

(***************************************************************************)
(* filename_for_platform                                                   *)
(***************************************************************************)
\* the extension test without centos6
archive_ext_linux_only(platform) == IF platform = s_linux THEN s_tar_gz ELSE s_zip

archive_ext(platform) ==
    IF platform = s_linux \/ platform = s_centos6 THEN s_tar_gz ELSE s_zip

edition_of(build_parts) ==
    IF Len(build_parts) > 2 /\ build_parts[3] = s_EE THEN s_enterprise ELSE s_community

filename_for_platform(platform0, debug, build) ==
    LET platform == IF platform0 = s_ios_net THEN s_ios ELSE platform0
        debug_str == IF debug THEN s_debug_suffix ELSE <<>>
        ext == archive_ext(platform)
    IN IF build.given THEN
           LET build_parts == split(build.s, s_dash)
               edition == edition_of(build_parts)
           IN IF Len(build_parts) < 2 THEN Raise("IndexError")   \* build_parts[1]
              ELSE Ok(s_prefix \o edition \o s_dash \o build_parts[1] \o s_dash
                      \o build_parts[2] \o s_dash \o platform \o debug_str \o s_dot \o ext)
       ELSE Ok(s_prefix \o platform \o debug_str \o s_dot \o ext)

(***************************************************************************)
(* variant_to_pair                                                         *)
(***************************************************************************)
\* the ios test as an equality: ios/net falls through to the split
variant_to_pair_ios_equal(variant) ==
    IF variant = s_linux \/ variant = s_centos6 THEN Ok(<<variant, s_x86_64>>)
    ELSE IF variant = s_macosx THEN Ok(<<s_macos, <<>> >>)
    ELSE IF variant = s_ios THEN Ok(<<s_ios, <<>> >>)
    ELSE LET first_dash == find(variant, s_dash) IN
         IF first_dash = -1 THEN Raise("ValueError")
         ELSE LET osname == SubSeq(variant, 1, first_dash)
                  abi == SubSeq(variant, first_dash + 2, Len(variant))
              IN IF osname = s_android THEN Ok(<<osname, abi>>)
                 ELSE IF find(abi, s_win64) # -1
                      THEN Ok(<<s_windows, replace(abi, s_win64, s_x86_64)>>)
                      ELSE Ok(<<osname, abi>>)

\* every windows ABI reported as x86_64
variant_to_pair_windows_x86_64(variant) ==
    IF variant = s_linux \/ variant = s_centos6 THEN Ok(<<variant, s_x86_64>>)
    ELSE IF variant = s_macosx THEN Ok(<<s_macos, <<>> >>)
    ELSE IF startswith(variant, s_ios) THEN Ok(<<s_ios, <<>> >>)
    ELSE LET first_dash == find(variant, s_dash) IN
         IF first_dash = -1 THEN Raise("ValueError")
         ELSE LET osname == SubSeq(variant, 1, first_dash)
                  abi == SubSeq(variant, first_dash + 2, Len(variant))
              IN IF osname = s_android THEN Ok(<<osname, abi>>)
                 ELSE IF osname = s_windows THEN Ok(<<s_windows, s_x86_64>>)
                      ELSE Ok(<<osname, abi>>)

variant_to_pair(variant) ==
    IF variant = s_linux \/ variant = s_centos6 THEN Ok(<<variant, s_x86_64>>)
    ELSE IF variant = s_macosx THEN Ok(<<s_macos, <<>> >>)
    ELSE IF startswith(variant, s_ios) THEN Ok(<<s_ios, <<>> >>)
    ELSE LET first_dash == find(variant, s_dash) IN     \* variant.index("-")
         IF first_dash = -1 THEN Raise("ValueError")
         ELSE LET osname == SubSeq(variant, 1, first_dash)
                  abi == SubSeq(variant, first_dash + 2, Len(variant))
              IN IF osname = s_android THEN Ok(<<osname, abi>>)
                 ELSE IF find(abi, s_win64) # -1
                      THEN Ok(<<s_windows, replace(abi, s_win64, s_x86_64)>>)
                      ELSE Ok(<<osname, abi>>)

(***************************************************************************)
(* pathlib.Path: whether the path is absolute, and its segments.           *)
(***************************************************************************)
s_cur == <<".">>
s_up == <<".", ".">>

\* Path(s): empty and "." segments are dropped
Path(s) ==
    [abs |-> startswith(s, s_slash),
     parts |-> SelectSeq(split(s, s_slash), LAMBDA seg : seg # <<>> /\ seg # s_cur)]

joinpath(p, q) == IF q.abs THEN q ELSE [abs |-> p.abs, parts |-> p.parts \o q.parts]

\* os.getcwd()
getcwd == [abs |-> TRUE, parts |-> << <<"w", "o", "r", "k">> >>]

\* Path.resolve(): absolute, ".." applied (the modelled filesystem has no symlinks)
RECURSIVE resolve_parts(_, _)
resolve_parts(parts, acc) ==
    IF parts = <<>> THEN acc
    ELSE IF Head(parts) = s_up
         THEN resolve_parts(Tail(parts), IF acc = <<>> THEN acc ELSE SubSeq(acc, 1, Len(acc) - 1))
         ELSE resolve_parts(Tail(parts), Append(acc, Head(parts)))

resolve(p) ==
    LET a == IF p.abs THEN p ELSE joinpath(getcwd, p)
    IN [abs |-> TRUE, parts |-> resolve_parts(a.parts, <<>>)]

(***************************************************************************)
(* The platform extension: platform_fetch.subdirectory_for_variant, here a *)
(* flat layout "<os>-<abi>".                                               *)
(***************************************************************************)
subdirectory_for_variant(osname, abi) == osname \o s_dash \o abi

\* import_platform_extensions: the globals after the call; found says whether
\* "from platform_fetch import subdirectory_for_variant" succeeds
import_platform_extensions(found) ==
    IF found THEN [has_platform |-> TRUE, hook |-> "platform_fetch"]
    ELSE [has_platform |-> has_platform, hook |-> hook]     \* except ImportError

(***************************************************************************)
(* calculate_download_path                                                 *)
(***************************************************************************)
\* the default convention used whether or not the extension is loaded
calculate_download_path_default(variant, output_base) ==
    LET output_base_path0 == Path(output_base)
        output_base_path == IF ~output_base_path0.abs
                            THEN joinpath(getcwd, output_base_path0)
                            ELSE output_base_path0
        variant_pair == variant_to_pair(variant)
    IN IF ~variant_pair.ok THEN variant_pair
       ELSE LET subdirectory == variant_pair.val[1] \o s_slash \o variant_pair.val[2]
            IN Ok(resolve(joinpath(output_base_path, Path(subdirectory))))

calculate_download_path(variant, output_base) ==
    LET output_base_path0 == Path(output_base)
        output_base_path == IF ~output_base_path0.abs
                            THEN joinpath(getcwd, output_base_path0)
                            ELSE output_base_path0
        variant_pair == variant_to_pair(variant)
    IN IF ~variant_pair.ok THEN variant_pair
       ELSE LET subdirectory ==
                    IF has_platform
                    THEN subdirectory_for_variant(variant_pair.val[1], variant_pair.val[2])
                    ELSE variant_pair.val[1] \o s_slash \o variant_pair.val[2]
            IN Ok(resolve(joinpath(output_base_path, Path(subdirectory))))

(***************************************************************************)
(* The filesystem: dirs holds the segments of each directory, files one     *)
(* record per file: its directory, its name, what it is, and the call      *)
(* (0: before the run) that wrote it.                                      *)
(***************************************************************************)
s_payload == <<"l", "i", "b">>      \* what an archive of the build server unpacks to
s_old == <<"o", "l", "d">>          \* content left by an earlier run

is_under(d, path) == Len(d) >= Len(path) /\ SubSeq(d, 1, Len(path)) = path

\* os.path.exists, of a target path: only a directory ever sits at one
exists(fsys, path) == path \in fsys.dirs

\* shutil.rmtree: the directory, and all under it
rmtree(fsys, path) ==
    [dirs |-> {d \in fsys.dirs : ~is_under(d, path)},
     files |-> {f \in fsys.files : ~is_under(f.dir, path)}]

\* os.makedirs: the directory and its missing parents
makedirs(fsys, path) ==
    [dirs |-> fsys.dirs \cup {SubSeq(path, 1, k) : k \in 0..Len(path)},
     files |-> fsys.files]

\* the target directory made without the old one being removed
remove_and_recreate_keeps(fsys, path) == makedirs(fsys, path)

\* if os.path.exists(download_path): rmtree(download_path); os.makedirs(download_path)
remove_and_recreate(fsys, path) ==
    makedirs(IF exists(fsys, path) THEN rmtree(fsys, path) ELSE fsys, path)

(***************************************************************************)
(* The build server's answer to the GET of one URL: an HTTP status, or no  *)
(* answer at all (urllib raises URLError, which is not an HTTPError).      *)
(***************************************************************************)
Responses == {200, 404, -1}
URLError == -1
is_2xx(response) == response >= 200 /\ response < 300

(***************************************************************************)
(* download_variant: what the call does to the filesystem, the requests it *)
(* sends, how it extracts, what it reports and its result. n numbers the   *)
(* call; the response is the server's answer to the URL the call computes. *)
(***************************************************************************)
\* the ios/net test left out
skips_extraction_never(variant) == FALSE

\* if variant == "ios/net": return 0
skips_extraction(variant) == variant = s_ios_net

download_variant(variant, build, debug, output_base, response, n) ==
    LET filename == filename_for_platform(variant, debug, build)
        download_path == calculate_download_path(variant, output_base)
        fs0 == [dirs |-> dirs, files |-> files]
        untouched == [filename |-> filename, download_path |-> download_path,
                      dirs |-> dirs, files |-> files, gets |-> 0,
                      extract |-> "none", reported |-> 0]
    IN IF ~filename.ok THEN [untouched EXCEPT !.download_path = filename] @@ [result |-> filename]
       ELSE IF ~download_path.ok THEN untouched @@ [result |-> download_path]
       ELSE
         LET dir == download_path.val.parts
             fs1 == remove_and_recreate(fs0, dir)
             archive == [dir |-> dir, name |-> filename.val, kind |-> "archive", by |-> n]
             fetched == [untouched EXCEPT !.dirs = fs1.dirs, !.files = fs1.files, !.gets = 1]
         IN IF response = URLError THEN fetched @@ [result |-> Raise("URLError")]
            ELSE IF ~is_2xx(response)
                 THEN [fetched EXCEPT !.reported = response] @@ [result |-> Ok(1)]
            ELSE IF skips_extraction(variant)
                 THEN [fetched EXCEPT !.files = fs1.files \cup {archive}] @@ [result |-> Ok(0)]
            ELSE [fetched EXCEPT
                    !.files = fs1.files \cup
                        {archive, [dir |-> dir, name |-> s_payload, kind |-> "extracted", by |-> n]},
                    !.extract = IF endswith(filename.val, s_tar_gz) THEN "tar" ELSE "zip"]
                 @@ [result |-> Ok(0)]

(***************************************************************************)
(* check_variant, the dry run                                              *)
(***************************************************************************)
\* a dry run that prepares the target directory like the download does
check_variant_prepares(variant, build, debug, output_base, response, n) ==
    LET filename == filename_for_platform(variant, debug, build)
        download_path == calculate_download_path(variant, output_base)
        untouched == [filename |-> filename, download_path |-> download_path,
                      dirs |-> dirs, files |-> files, gets |-> 0,
                      extract |-> "none", reported |-> 0]
    IN IF ~filename.ok THEN [untouched EXCEPT !.download_path = filename] @@ [result |-> filename]
       ELSE IF ~download_path.ok THEN untouched @@ [result |-> download_path]
       ELSE LET fs1 == remove_and_recreate([dirs |-> dirs, files |-> files],
                                           download_path.val.parts)
                asked == [untouched EXCEPT !.dirs = fs1.dirs, !.files = fs1.files, !.gets = 1]
            IN IF response = URLError THEN asked @@ [result |-> Raise("URLError")]
               ELSE IF ~is_2xx(response)
                    THEN [asked EXCEPT !.reported = response] @@ [result |-> Ok(1)]
               ELSE [asked EXCEPT !.reported = 200] @@ [result |-> Ok(0)]

check_variant(variant, build, debug, output_base, response, n) ==
    LET filename == filename_for_platform(variant, debug, build)
        download_path == calculate_download_path(variant, output_base)
        untouched == [filename |-> filename, download_path |-> download_path,
                      dirs |-> dirs, files |-> files, gets |-> 0,
                      extract |-> "none", reported |-> 0]
    IN IF ~filename.ok THEN [untouched EXCEPT !.download_path = filename] @@ [result |-> filename]
       ELSE IF ~download_path.ok THEN untouched @@ [result |-> download_path]
       ELSE LET asked == [untouched EXCEPT !.gets = 1]
            IN IF response = URLError THEN asked @@ [result |-> Raise("URLError")]
               ELSE IF ~is_2xx(response)
                    THEN [asked EXCEPT !.reported = response] @@ [result |-> Ok(1)]
               ELSE [asked EXCEPT !.reported = 200] @@ [result |-> Ok(0)]

(***************************************************************************)
(* The inputs the model draws from.                                        *)
(***************************************************************************)
s_foo == <<"f", "o", "o">>                      \* a token no rule knows
s_a_win64win64 == <<"a", "-", "w", "i", "n", "6", "4", "w", "i", "n", "6", "4">>
s_win64_a == <<"w", "i", "n", "6", "4", "-", "a">>
s_uwp_win64_x == <<"u", "w", "p", "-", "w", "i", "n", "6", "4", "-", "x">>
s_out == <<"o", "u", "t">>
s_abs_out == <<"/", "o", "u", "t">>
s_work == <<"w", "o", "r", "k">>

StringsOver(alphabet, maxlen) == UNION {[1..n -> alphabet] : n \in 0..maxlen}

\* the variants a run can hold: what the recognized identifiers expand to
ConcreteVariants == calculate_variants(iteration_order(VALID_PLATFORMS))

TokenLists == StringsOver(VALID_PLATFORMS \cup {s_foo}, MaxTokens)

BuildStrings == StringsOver({"3", "-", "E"}, MaxBuildLen)

SplitTokens ==
    VALID_PLATFORMS \cup {s_foo, s_a_win64win64, s_win64_a, s_uwp_win64_x}
        \cup StringsOver({"i", "o", "s", "-"}, MaxTokLen)

RunBuilds == {None, Some(<<"3", "-", "7">>), Some(<<"3">>)}

OutputBases == {s_abs_out, s_out}

RunVariantSets == {S \in SUBSET ConcreteVariants : Cardinality(S) >= 1 /\ Cardinality(S) <= MaxRun}

\* before the run: under /out and under <cwd>/out an ios directory with old content
InitialDirs ==
    {<<>>, <<s_out>>, <<s_out, s_ios>>, <<s_out, s_ios, s_old>>,
     <<s_work>>, <<s_work, s_out>>, <<s_work, s_out, s_ios>>, <<s_work, s_out, s_ios, s_old>>}

InitialFiles ==
    {[dir |-> d, name |-> s_old, kind |-> "stale", by |-> 0] :
        d \in {<<s_out, s_ios>>, <<s_out, s_ios, s_old>>,
               <<s_work, s_out, s_ios>>, <<s_work, s_out, s_ios, s_old>>}}

NoArgs == [build |-> None, debug |-> FALSE, output_base |-> s_out, dry_run |-> FALSE]

\* everything but pc and call, for the specifications of one pure function
Idle ==
    /\ has_platform = FALSE /\ hook = "unbound" /\ imported = "pending"
    /\ args = NoArgs /\ dirs = {<<>>} /\ files = {}
    /\ todo = {} /\ failed_count = 0 /\ attempted = {} /\ placed = {}

StaysIdle ==
    UNCHANGED <<has_platform, hook, imported, args, dirs, files, todo, failed_count,
                attempted, placed>>

(***************************************************************************)
(* calculate_variants, called on a list of tokens and then on its result.  *)
(***************************************************************************)
InitExpand ==
    /\ Idle /\ pc = "called"
    /\ call \in {[op |-> "calculate_variants", original |-> o, ret |-> {}, ret2 |-> {}] :
                    o \in TokenLists}

CallCalculateVariants ==
    /\ pc = "called" /\ call.op = "calculate_variants"
    /\ call' = [call EXCEPT !.ret = calculate_variants(call.original)]
    /\ pc' = "returned"
    /\ StaysIdle

CallCalculateVariantsAgain ==
    /\ pc = "returned" /\ call.op = "calculate_variants"
    /\ call' = [call EXCEPT !.ret2 = calculate_variants(iteration_order(call.ret))]
    /\ pc' = "twice"
    /\ StaysIdle

NextExpand == CallCalculateVariants \/ CallCalculateVariantsAgain

SpecExpand == InitExpand /\ [][NextExpand]_vars

(***************************************************************************)
(* filename_for_platform, called once.                                     *)
(***************************************************************************)
InitFilename ==
    /\ Idle /\ pc = "called"
    /\ call \in {[op |-> "filename_for_platform", platform |-> p, debug |-> d,
                  build |-> b, ret |-> Raise("pending")] :
                    p \in ConcreteVariants, d \in BOOLEAN,
                    b \in {None} \cup {Some(s) : s \in BuildStrings}}

CallFilenameForPlatform ==
    /\ pc = "called" /\ call.op = "filename_for_platform"
    /\ call' = [call EXCEPT !.ret = filename_for_platform(call.platform, call.debug, call.build)]
    /\ pc' = "returned"
    /\ StaysIdle

NextFilename == CallFilenameForPlatform

SpecFilename == InitFilename /\ [][NextFilename]_vars

(***************************************************************************)
(* variant_to_pair, called once.                                           *)
(***************************************************************************)
InitSplit ==
    /\ Idle /\ pc = "called"
    /\ call \in {[op |-> "variant_to_pair", variant |-> v, ret |-> Raise("pending")] :
                    v \in SplitTokens}

CallVariantToPair ==
    /\ pc = "called" /\ call.op = "variant_to_pair"
    /\ call' = [call EXCEPT !.ret = variant_to_pair(call.variant)]
    /\ pc' = "returned"
    /\ StaysIdle

NextSplit == CallVariantToPair

SpecSplit == InitSplit /\ [][NextSplit]_vars

(***************************************************************************)
(* A run: the extension is imported, then the caller hands each variant,   *)
(* in the order the set yields them, to download_variant (or, in a dry     *)
(* run, to check_variant) and adds the result to its tally. An exception   *)
(* that leaves the call ends the run.                                      *)
(***************************************************************************)
NoCall == [op |-> "none", n |-> 0]

Init ==
    /\ has_platform = FALSE /\ hook = "unbound" /\ imported = "pending"
    /\ pc = "startup"
    /\ args \in [build : RunBuilds, debug : BOOLEAN, output_base : OutputBases,
                 dry_run : BOOLEAN]
    /\ dirs = InitialDirs /\ files = InitialFiles
    /\ call = NoCall
    /\ todo \in RunVariantSets
    /\ failed_count = 0 /\ attempted = {} /\ placed = {}

Startup ==
    /\ pc = "startup"
    /\ \E found \in BOOLEAN :
         LET g == import_platform_extensions(found)
         IN /\ has_platform' = g.has_platform
            /\ hook' = g.hook
            /\ imported' = IF found THEN "loaded" ELSE "ImportError"
    /\ pc' = "running"
    /\ UNCHANGED <<args, dirs, files, call, todo, failed_count, attempted, placed>>

\* the caller's step on the record r a call on variant v produced
Account(opname, v, response, n, r) ==
    /\ dirs' = r.dirs
    /\ files' = r.files
    /\ call' = [op |-> opname, variant |-> v, response |-> response, n |-> n,
                filename_ok |-> r.filename.ok, filename |-> r.filename.val,
                path_ok |-> r.download_path.ok,
                dir |-> IF r.download_path.ok THEN r.download_path.val.parts ELSE <<>>,
                gets |-> r.gets, extract |-> r.extract, reported |-> r.reported,
                returned |-> r.result.ok,
                ret |-> IF r.result.ok THEN r.result.val ELSE -1,
                exc |-> r.result.exc,
                before |-> [dirs |-> dirs, files |-> files]]
    /\ todo' = todo \ {v}
    /\ attempted' = attempted \cup
            {[variant |-> v, response |-> response, n |-> n,
              dir |-> IF r.download_path.ok THEN r.download_path.val.parts ELSE <<>>,
              returned |-> r.result.ok,
              ret |-> IF r.result.ok THEN r.result.val ELSE -1]}
    /\ failed_count' = IF r.result.ok THEN failed_count + r.result.val ELSE failed_count
    /\ pc' = IF ~r.result.ok THEN "aborted"
             ELSE IF todo \ {v} = {} THEN "done" ELSE "running"
    /\ UNCHANGED <<has_platform, hook, imported, args>>

StepDownload ==
    /\ pc = "running" /\ ~args.dry_run
    /\ \E v \in todo, response \in Responses, n \in {Cardinality(attempted) + 1} :
         \E r \in {download_variant(v, args.build, args.debug, args.output_base, response, n)} :
            /\ Account("download_variant", v, response, n, r)
            /\ placed' = IF r.result.ok /\ r.result.val = 0
                         THEN placed \cup {f \in r.files : f.by = n}
                         ELSE placed

StepCheck ==
    /\ pc = "running" /\ args.dry_run
    /\ \E v \in todo, response \in Responses, n \in {Cardinality(attempted) + 1} :
         \E r \in {check_variant(v, args.build, args.debug, args.output_base, response, n)} :
            /\ Account("check_variant", v, response, n, r)
            /\ placed' = placed

Next == Startup \/ StepDownload \/ StepCheck

Spec == Init /\ [][Next]_vars

(***************************************************************************)
(* Properties.                                                             *)
(***************************************************************************)
MetaVariants == {s_dotnet, s_android, s_java, s_windows, s_macos}

\* the table of expansions, one row per meta-variant
ExpansionTable(t) ==
    CASE t = s_dotnet ->
            {s_linux, s_android_x86_64, s_android_x86, s_android_armeabi_v7a,
             s_android_arm64_v8a, s_macosx, s_ios_net, s_windows_win64, s_windows_arm64}
      [] t = s_android ->
            {s_android_x86_64, s_android_x86, s_android_armeabi_v7a, s_android_arm64_v8a}
      [] t = s_java -> {s_linux, s_macosx, s_windows_win64}
      [] t = s_windows -> {s_windows_win64, s_windows_arm64}
      [] t = s_macos -> {s_macosx}
      [] OTHER -> {t}

\* C1: calculate_variants returns exactly the union, over the tokens of its input, of
\* each token's row of the table (any other token: itself); on the one token dotnet
\* the result has exactly 9 elements, dotnet not among them; and the call never fails
\* (it returns for every input).
C1_ExpandIsUnionOfTable ==
    /\ (call.op = "calculate_variants" /\ pc = "called") => ENABLED CallCalculateVariants
    /\ (call.op = "calculate_variants" /\ pc # "called") =>
         /\ call.ret = UNION {ExpansionTable(call.original[i]) : i \in 1..Len(call.original)}
         /\ (call.original = <<s_dotnet>> =>
               Cardinality(call.ret) = 9 /\ s_dotnet \notin call.ret)

C1_Witness ==
    /\ call.op = "calculate_variants" /\ pc = "returned"
    /\ call.original = <<s_dotnet>>
    /\ Cardinality(call.ret) = 9 /\ s_ios_net \in call.ret

\* C2: expanding the result of an expansion changes nothing, and a list of
\* meta-variants expands to no meta-variant.
C2_ExpandIdempotent ==
    (call.op = "calculate_variants" /\ pc = "twice") =>
        /\ call.ret2 = call.ret
        /\ ((\A i \in 1..Len(call.original) : call.original[i] \in MetaVariants)
              => call.ret \cap MetaVariants = {})

C2_Witness ==
    /\ call.op = "calculate_variants" /\ pc = "twice"
    /\ call.original = <<s_java, s_android>>
    /\ call.ret2 = call.ret /\ Cardinality(call.ret2) = 7

\* the number of hyphen-delimited segments of a string
C3_NumSegments(s) == 1 + Cardinality({i \in 1..Len(s) : s[i] = "-"})

C3_Expected(variant, debug, build) ==
    LET name == IF variant = s_ios_net THEN s_ios ELSE variant
        suffix == IF debug THEN s_debug_suffix ELSE <<>>
        ext == IF variant \in {s_linux, s_centos6} THEN s_tar_gz ELSE s_zip
        segs == split(build.s, s_dash)
        edition == IF C3_NumSegments(build.s) > 2 /\ segs[3] = s_EE
                   THEN s_enterprise ELSE s_community
    IN IF ~build.given THEN Ok(s_prefix \o name \o suffix \o s_dot \o ext)
       ELSE IF C3_NumSegments(build.s) < 2 THEN Raise("IndexError")
       ELSE Ok(s_prefix \o edition \o s_dash \o segs[1] \o s_dash \o segs[2] \o s_dash
               \o name \o suffix \o s_dot \o ext)

\* C3: filename_for_platform names ios/net as ios, appends -debug iff debug, uses
\* tar.gz exactly for linux and centos6 and zip otherwise; without a build the name is
\* couchbase-lite-core-{variant}{suffix}.{ext}, with one it is
\* couchbase-lite-core-{edition}-{seg0}-{seg1}-{variant}{suffix}.{ext}, enterprise iff
\* the build has more than 2 segments and segment 2 is EE; and it fails, returning no
\* filename, when the build has fewer than 2 hyphen-delimited segments.
C3_FilenameAsSpecified ==
    (call.op = "filename_for_platform" /\ pc = "returned") =>
        \A e \in {C3_Expected(call.platform, call.debug, call.build)} :
            /\ call.ret.ok = e.ok
            /\ call.ret.ok => call.ret.val = e.val
            /\ ~call.ret.ok <=> (call.build.given /\ C3_NumSegments(call.build.s) < 2)

C3_Witness ==
    /\ call.op = "filename_for_platform" /\ pc = "returned"
    /\ call.platform = s_centos6 /\ call.debug
    /\ call.build = Some(<<"3", "-", "3", "-", "E", "E">>)
    /\ call.ret.ok
    /\ call.ret.val = s_prefix \o s_enterprise \o <<"-", "3", "-", "3", "-">> \o s_centos6
                        \o s_debug_suffix \o s_dot \o s_tar_gz

C4_NoDash(v) == \A i \in 1..Len(v) : v[i] # "-"

C4_FixedName(v) == v \in {s_linux, s_centos6, s_macosx} \/ startswith(v, s_ios)

C4_Expected(v) ==
    IF v \in {s_linux, s_centos6} THEN <<v, s_x86_64>>
    ELSE IF v = s_macosx THEN <<s_macos, <<>> >>
    ELSE IF startswith(v, s_ios) THEN <<s_ios, <<>> >>
    ELSE LET prefix == split(v, s_dash)[1]
             suffix == SubSeq(v, Len(prefix) + 2, Len(v))
         IN IF prefix = s_android THEN <<s_android, suffix>>
            ELSE IF find(suffix, s_win64) # -1
                 THEN <<s_windows, replace(suffix, s_win64, s_x86_64)>>
                 ELSE <<prefix, suffix>>

C4_Rules ==
    /\ ~call.ret.ok <=> (C4_NoDash(call.variant) /\ ~C4_FixedName(call.variant))
    /\ call.ret.ok => call.ret.val = C4_Expected(call.variant)

\* C4 as claimed: variant_to_pair follows the first-match rules, fails exactly when the
\* token has no '-' and matches no fixed name, and so returns a pair for every
\* recognized platform identifier.
C4_SplitsEveryRecognizedPlatform ==
    (call.op = "variant_to_pair" /\ pc = "returned") =>
        /\ C4_Rules
        /\ call.variant \in VALID_PLATFORMS => call.ret.ok

\* C4 as amended: variant_to_pair follows the first-match rules and fails exactly when
\* the token has no '-' and matches no fixed name; so it returns a pair for every
\* variant the recognized platform identifiers expand to, and fails for the
\* unexpanded meta-variants android, dotnet, java, macos and windows, which are
\* recognized platform identifiers too.
C4_SplitsEveryConcreteVariant ==
    (call.op = "variant_to_pair" /\ pc = "returned") =>
        /\ C4_Rules
        /\ call.variant \in ConcreteVariants => call.ret.ok
        /\ call.variant \in MetaVariants => ~call.ret.ok

C4_Witness ==
    /\ call.op = "variant_to_pair" /\ pc = "returned"
    /\ call.variant = s_uwp_win64_x
    /\ call.ret.ok /\ call.ret.val = <<s_windows, s_x86_64 \o <<"-", "x">> >>

\* the directory a call on variant v should work in: the output base made absolute
\* against the working directory, then the hook's result if the extension was
\* loaded, else <os>/<abi> (an empty abi adds no segment)
C5_ExpectedDir(v) ==
    LET pair == variant_to_pair(v).val
        base == IF args.output_base = s_abs_out THEN <<s_out>> ELSE <<s_work, s_out>>
    IN IF imported = "loaded"
       THEN base \o <<subdirectory_for_variant(pair[1], pair[2])>>
       ELSE base \o <<pair[1]>> \o (IF pair[2] = <<>> THEN <<>> ELSE <<pair[2]>>)

\* C5: the download path is the absolute output base joined with the hook's result
\* iff the extension was loaded, and with <os>/<abi> otherwise (/out/windows/x86_64
\* for windows-win64); a failed import is not fatal, the flag stays false and the
\* run goes on with the default; after startup the flag is what the import made it,
\* whatever path and fetch operations have run.
C5_PathFollowsImport ==
    /\ (call.op \in {"download_variant", "check_variant"} /\ call.path_ok) =>
          /\ call.dir = C5_ExpectedDir(call.variant)
          /\ (call.variant = s_windows_win64 /\ args.output_base = s_abs_out
                /\ imported = "ImportError") => call.dir = <<s_out, s_windows, s_x86_64>>
    /\ pc # "startup" => has_platform = (imported = "loaded")
    /\ (imported = "ImportError" /\ call.op = "none") => pc = "running"

C5_Witness ==
    /\ imported = "loaded" /\ has_platform
    /\ call.op = "download_variant" /\ call.n = 2
    /\ call.variant = s_windows_win64 /\ args.output_base = s_out
    /\ call.dir = <<s_work, s_out, s_windows \o s_dash \o s_x86_64>>

C6_HttpError(response) == response # URLError /\ ~is_2xx(response)

C6_Behaviour ==
    /\ call.gets = 1
    /\ call.extract # "none" => is_2xx(call.response) /\ call.variant # s_ios_net
    /\ C6_HttpError(call.response) =>
          /\ call.returned /\ call.ret = 1 /\ call.reported = call.response
          /\ call.extract = "none"
          /\ \A f \in files : f.by = call.n => f.kind # "extracted"
    /\ (is_2xx(call.response) /\ call.variant = s_ios_net) =>
          /\ call.returned /\ call.ret = 0 /\ call.extract = "none"
          /\ \A f \in files : f.by = call.n => f.kind # "extracted"
    /\ (is_2xx(call.response) /\ call.variant # s_ios_net) =>
          /\ call.returned /\ call.ret = 0
          /\ call.extract = IF call.variant \in {s_linux, s_centos6} THEN "tar" ELSE "zip"
          /\ \E f \in files : f.by = call.n /\ f.kind = "extracted" /\ f.dir = call.dir

\* C6 as claimed: every call of download_variant issues exactly one GET and extracts
\* only if that GET succeeded and the variant is not ios/net: a non-2xx response is
\* reported and returns 1 without extraction, ios/net with a successful GET returns 0
\* without extraction, any other successful GET is extracted (tar.gz or zip) and
\* returns 0.
C6_OneGetPerCall == call.op = "download_variant" => C6_Behaviour

\* C6 as amended: the same, for every call whose filename and target path resolve; a
\* call whose build has fewer than 2 hyphen-delimited segments raises before any GET
\* and extracts nothing.
C6_OneGetPerResolvedCall ==
    call.op = "download_variant" =>
        /\ (call.filename_ok /\ call.path_ok) => C6_Behaviour
        /\ ~call.filename_ok =>
              call.gets = 0 /\ call.extract = "none" /\ ~call.returned

C6_Witness ==
    /\ call.op = "download_variant" /\ call.filename_ok
    /\ call.variant = s_linux /\ call.response = 200
    /\ call.gets = 1 /\ call.extract = "tar" /\ call.returned /\ call.ret = 0

C7_BuildResolves == ~args.build.given \/ C3_NumSegments(args.build.s) >= 2

\* C7: a failure on one variant, a non-2xx response or a transport failure, becomes
\* the result 1 of download_variant / check_variant and does not abort the run, so
\* that a finished run has attempted every variant and its tally is the number of
\* variants that failed. (Stated for runs whose build resolves to a filename.)
C7_FailuresAreTallied ==
    C7_BuildResolves =>
        /\ pc # "aborted"
        /\ \A a \in attempted : ~is_2xx(a.response) => a.returned /\ a.ret = 1
        /\ pc = "done" =>
              /\ todo = {}
              /\ failed_count = Cardinality({a \in attempted : ~is_2xx(a.response)})

\* C8: check_variant leaves the filesystem as it was in every case; it computes the
\* filename and the target path, asks the server once, and returns 0 if the URL
\* answered successfully and 1 on an HTTP error.
C8_CheckLeavesFilesystem ==
    call.op = "check_variant" =>
        /\ dirs = call.before.dirs /\ files = call.before.files
        /\ (call.filename_ok /\ call.path_ok) =>
              /\ call.dir = calculate_download_path(call.variant, args.output_base).val.parts
              /\ call.gets = 1
              /\ is_2xx(call.response) => call.returned /\ call.ret = 0
              /\ C6_HttpError(call.response) =>
                    call.returned /\ call.ret = 1 /\ call.reported = call.response

C8_Witness ==
    /\ call.op = "check_variant" /\ call.variant = s_ios /\ call.response = 404
    /\ call.returned /\ call.ret = 1
    /\ \E f \in files : f.dir = call.dir /\ f.kind = "stale"

C9_Under(dir) == {f \in files : is_under(f.dir, dir)}

\* C9 as claimed: after any call of download_variant, successful or failed, the
\* target directory exists and holds nothing from before the call.
C9_TargetFreshAfterAnyCall ==
    call.op = "download_variant" =>
        \A t \in {calculate_download_path(call.variant, args.output_base)} :
            /\ t.ok
            /\ t.val.parts \in dirs
            /\ \A f \in C9_Under(t.val.parts) : f.by = call.n

\* C9 as amended: after any call of download_variant whose filename and target path
\* resolve, whatever the fetch did, the target directory exists and holds nothing
\* from before the call, and after a failed fetch it holds no extracted artifact; a
\* call whose build has fewer than 2 hyphen-delimited segments raises before the
\* directory is touched, and leaves the filesystem as it was.
C9_TargetFreshAfterResolvedCall ==
    call.op = "download_variant" =>
        /\ (call.filename_ok /\ call.path_ok) =>
              /\ call.dir \in dirs
              /\ \A f \in C9_Under(call.dir) : f.by = call.n
              /\ ~is_2xx(call.response) =>
                    \A f \in C9_Under(call.dir) : f.kind # "extracted"
        /\ ~call.filename_ok =>
              dirs = call.before.dirs /\ files = call.before.files

C9_Witness ==
    /\ call.op = "download_variant" /\ call.filename_ok /\ call.path_ok
    /\ call.variant = s_ios /\ call.response = 404
    /\ \E f \in call.before.files : is_under(f.dir, call.dir) /\ f.dir # call.dir
    /\ call.dir \in dirs /\ C9_Under(call.dir) = {}

C10_RunVariants == todo \cup {a.variant : a \in attempted}

C10_Resolved == {a \in attempted : a.dir # <<>>}

\* C10 as claimed: with the default convention ios/net and ios, and any two distinct
\* variants of a run, get distinct target directories, so no download of a run
\* deletes what an earlier successful download of the run placed.
C10_DistinctTargets ==
    ~has_platform =>
        /\ \A a, b \in C10_Resolved : a.variant # b.variant => a.dir # b.dir
        /\ placed \subseteq files

\* C10 as amended: with the default convention ios/net and ios get the same target
\* directory, and they are the only two distinct variants that do; so in a run that
\* does not hold both, no download deletes what an earlier successful download of
\* the run placed.
C10_DistinctTargetsButIos ==
    ~has_platform =>
        /\ pc = "startup" =>
              \A P \in {[v \in ConcreteVariants |->
                            calculate_download_path(v, args.output_base).val.parts]} :
                  \A v, w \in ConcreteVariants :
                      v # w => (P[v] = P[w] <=> {v, w} = {s_ios, s_ios_net})
        /\ \A a, b \in C10_Resolved :
              a.variant # b.variant =>
                  (a.dir = b.dir <=> {a.variant, b.variant} = {s_ios, s_ios_net})
        /\ ~({s_ios, s_ios_net} \subseteq C10_RunVariants) => placed \subseteq files

C10_Witness ==
    /\ ~has_platform /\ pc = "done"
    /\ \E a, b \in attempted :
         /\ a.variant = s_windows_win64 /\ b.variant = s_windows_arm64
         /\ a.dir # b.dir
         /\ \E f, g \in placed : f.dir = a.dir /\ g.dir = b.dir /\ f \in files /\ g \in files
====
